---- MODULE Spec2Model ----
(***************************************************************************)
(* Model of the two command-line utilities of the repository:              *)
(*   src/2/tu_tr.cpp  character transliteration (tu_tr)                    *)
(*   src/2/tu_wc.cpp  line / word / byte counting (tu_wc)                  *)
(*                                                                         *)
(* A value of C type `char` is kept as the integer the build gives it:     *)
(* -128..127 when plain char is signed, 0..255 when it is unsigned.  The   *)
(* signedness of plain char is fixed by the build, so it is chosen in the  *)
(* initial state (charSigned) and never changes.  A byte of a stream is    *)
(* an integer 0..255; the value getc()/getchar() returns is that integer,  *)
(* or EOF.                                                                 *)
(*                                                                         *)
(* Streams are read lazily: every call of getc()/getchar() chooses what    *)
(* the stream delivers next (a byte, clean end-of-stream, or an error),    *)
(* and `inp` records the bytes delivered so far by the current stream.     *)
(***************************************************************************)
EXTENDS Integers, Sequences, FiniteSets, TLC

VARIABLES
    charSigned,       \* build: plain char is signed
    pc,               \* position of main()
    exitCode,         \* value returned by main() (meaningful when pc = "done")
    errlog,           \* diagnostics written to the error stream, in order
    inp,              \* bytes delivered so far by the stream being read
    eofInd,           \* feof() of the stream being read
    errInd,           \* ferror() of the stream being read
    ch,               \* `char ch` of tu_tr main() / tu_wc ProcessFile()
    \* ---- tu_tr ----
    argc, arg1, arg2, \* command line of tu_tr
    map,              \* char map[ASCII_MAX]
    len1, arg2MaxValidPos, pos1, pos2,
    out,              \* bytes written to standard output by tu_tr
    \* ---- tu_wc ----
    bUseLines, bUseWords, bUseBytes,
    fileNum,          \* argc - optind
    i,                \* index of the file argument at hand, counted from 0
    tempTotalByteNum, columnWidth, totalLabel, bUsingStdin,
    totalLineNum, totalWordNum, totalByteNum,
    filename,         \* ProcessFile: filename ("" for standard input)
    lineNum, wordNum, byteNum, prevCh, bPrevWasSpace,
    stdout,           \* what tu_wc has written to standard output, in order
    openFiles,        \* names of the files fopen()ed and not fclose()d
    probed,           \* st_size reported by stat() for each file argument
    srcLog            \* one record per source main() is through with

trVars == <<argc, arg1, arg2, map, len1, arg2MaxValidPos, pos1, pos2, out>>
ioVars == <<inp, eofInd, errInd>>
optVars == <<bUseLines, bUseWords, bUseBytes>>
totVars == <<totalLineNum, totalWordNum, totalByteNum>>
scanVars == <<lineNum, wordNum, byteNum, prevCh, bPrevWasSpace>>
mainVars == <<fileNum, i, tempTotalByteNum, columnWidth, totalLabel, bUsingStdin>>
wcVars == <<optVars, mainVars, totVars, filename, scanVars, stdout, openFiles,
            probed, srcLog>>
vars == <<charSigned, pc, exitCode, errlog, inp, eofInd, errInd, ch, trVars,
          wcVars>>

(***************************************************************************)
(* Bounds of the model.                                                    *)
(***************************************************************************)
MaxArg == 2           \* longest ARG1 / ARG2 of tu_tr
MaxInput == 2         \* most bytes standard input delivers to tu_tr
MaxFiles == 2         \* most file arguments of tu_wc
MaxData == 3          \* most bytes all the streams of a tu_wc run deliver
LoopSlack == 2        \* loop iterations explored beyond the bytes delivered

(* Bytes used on the command line and in the streams. *)
SrcBytes == {97, 98}                \* 'a' 'b'            (ARG1, ASCII)
TgtBytes == {120, 121, 255}         \* 'x' 'y' 0xFF       (ARG2)
TrInBytes == {97, 98, 99, 128, 255} \* 'a' 'b' 'c' 0x80 0xFF (standard input)
WcBytes == {10, 13, 32, 97, 255}    \* '\n' '\r' ' ' 'a' 0xFF (tu_wc streams)
StatSizes == {1, 999}               \* st_size values stat() reports
OptSets == {{}, {"l"}, {"w", "c"}}  \* options given to tu_wc
Names == <<"f1", "f2", "f3", "f4">> \* file arguments of tu_wc, in order

SeqsUpTo(S, n) == UNION {[1..k -> S] : k \in 0..n}

(***************************************************************************)
(* C language and library helpers.                                         *)
(***************************************************************************)
EOF == -1
ARGS_USED_NUM == 2
ASCII_MAX == 256

(* Conversion of an int to plain char (8 bits). *)
ToChar(v) ==
    LET u == v % 256
    IN  IF charSigned /\ u >= 128 THEN u - 256 ELSE u

(* The byte putchar(c) writes: c converted to unsigned char. *)
ToByte(c) == c % 256

NO_MATCH == ToChar(-1)

(* arg[pos] of a C string, pos counted from 0; arg[strlen(arg)] is the
   terminating NUL. *)
CharAt(arg, pos) == IF pos < Len(arg) THEN ToChar(arg[pos + 1]) ELSE 0

(* strlen(arg2) - 1 converted to int: -1 for the empty string. *)
MaxValidPos(arg) == Len(arg) - 1

(* The outcomes of one getc()/getchar() on the current stream whose data
   bytes are drawn from `bytes` while `more` holds: the value returned and
   the stream state after the call.  An indicator, once set, stays set and
   the call keeps returning EOF. *)
Getc(bytes, more) ==
    IF eofInd \/ errInd
    THEN {[val |-> EOF, inp |-> inp, eof |-> eofInd, err |-> errInd]}
    ELSE {[val |-> b, inp |-> Append(inp, b), eof |-> FALSE, err |-> FALSE] :
              b \in (IF more THEN bytes ELSE {})}
         \cup {[val |-> EOF, inp |-> inp, eof |-> TRUE, err |-> FALSE],
               [val |-> EOF, inp |-> inp, eof |-> FALSE, err |-> TRUE]}

(* The variables of tu_wc while tu_tr runs. *)
WcIdle ==
    /\ bUseLines = FALSE /\ bUseWords = FALSE /\ bUseBytes = FALSE
    /\ fileNum = 0 /\ i = 0 /\ tempTotalByteNum = 0 /\ columnWidth = 0
    /\ totalLabel = "" /\ bUsingStdin = FALSE
    /\ totalLineNum = 0 /\ totalWordNum = 0 /\ totalByteNum = 0
    /\ filename = ""
    /\ lineNum = 0 /\ wordNum = 0 /\ byteNum = 0 /\ prevCh = 0
    /\ bPrevWasSpace = FALSE
    /\ stdout = <<>> /\ openFiles = {} /\ probed = <<>> /\ srcLog = <<>>

(* The variables of tu_tr while tu_wc runs. *)
TrIdle ==
    /\ argc = 0 /\ arg1 = <<>> /\ arg2 = <<>>
    /\ map = <<>>
    /\ len1 = 0 /\ arg2MaxValidPos = 0 /\ pos1 = 0 /\ pos2 = 0
    /\ out = <<>>

(***************************************************************************)
(* tu_tr                                                                   *)
(***************************************************************************)

(* The values an out-of-bounds read map[i], i < 0, can yield (some char of
   the stack frame). *)
StrayChars == {NO_MATCH, 0, ToChar(120)}

(* Lines 74-77: the chars putchar() can be handed for the char c read. *)
Lookup(m, c) ==
    LET cell == IF c \in DOMAIN m THEN {m[c]} ELSE StrayChars
    IN  {IF v /= NO_MATCH THEN v ELSE c : v \in cell}

(* The bytes the scan loop can write for an input byte b. *)
Transform(m, b) == {ToByte(v) : v \in Lookup(m, ToChar(b))}

TrInit ==
    /\ charSigned \in BOOLEAN
    /\ argc \in {2, 3}
    /\ arg1 \in (IF argc = 3 THEN SeqsUpTo(SrcBytes, MaxArg) ELSE {<<>>})
    /\ arg2 \in (IF argc = 3 THEN SeqsUpTo(TgtBytes, MaxArg) ELSE {<<>>})
    /\ pc = "start"
    /\ exitCode = 0
    /\ errlog = <<>>
    /\ inp = <<>>
    /\ eofInd = FALSE
    /\ errInd = FALSE
    /\ ch = 0
    /\ map = [c \in 0..(ASCII_MAX - 1) |-> 0]
    /\ len1 = 0
    /\ arg2MaxValidPos = 0
    /\ pos1 = 0
    /\ pos2 = 0
    /\ out = <<>>
    /\ WcIdle

(* Lines 30-36: wrong number of arguments. *)
TrUsage ==
    /\ pc = "start"
    /\ argc /= ARGS_USED_NUM + 1
    /\ errlog' = Append(errlog, "Usage")
    /\ exitCode' = 1
    /\ pc' = "done"
    /\ UNCHANGED <<charSigned, ioVars, ch, trVars, wcVars>>

(* Lines 38-59: fill the table with NO_MATCH, take the lengths, enter the
   mapping loop. *)
TrSetup ==
    /\ pc = "start"
    /\ argc = ARGS_USED_NUM + 1
    /\ map' = [c \in 0..(ASCII_MAX - 1) |-> NO_MATCH]
    /\ len1' = Len(arg1)
    /\ arg2MaxValidPos' = MaxValidPos(arg2)
    /\ pos1' = 0
    /\ pos2' = 0
    /\ pc' = "build"
    /\ UNCHANGED <<charSigned, exitCode, errlog, ioVars, ch, argc, arg1, arg2, out,
                   wcVars>>

(* Lines 59-64: one iteration of the mapping loop. *)
TrBuildStep ==
    /\ pc = "build"
    /\ pos1 < len1
    /\ map' = [map EXCEPT ![CharAt(arg1, pos1)] = CharAt(arg2, pos2)]
    /\ pos2' = IF pos2 < arg2MaxValidPos THEN pos2 + 1 ELSE pos2
    /\ pos1' = pos1 + 1
    /\ UNCHANGED <<charSigned, pc, exitCode, errlog, ioVars, ch,
                   argc, arg1, arg2, len1, arg2MaxValidPos, out, wcVars>>

(* Line 66: the mapping loop is over; first getchar(). *)
TrFirstRead ==
    /\ pc = "build"
    /\ pos1 >= len1
    /\ \E r \in Getc(TrInBytes, Len(inp) < MaxInput) :
          /\ ch' = ToChar(r.val)
          /\ inp' = r.inp
          /\ eofInd' = r.eof
          /\ errInd' = r.err
    /\ pc' = "scan"
    /\ UNCHANGED <<charSigned, exitCode, errlog, trVars, wcVars>>

(* Lines 68-80: one iteration of the scan loop. *)
TrScanStep ==
    /\ pc = "scan"
    /\ ch /= EOF
    /\ Len(out) < Len(inp) + LoopSlack
    /\ IF ch >= ASCII_MAX
       THEN /\ errlog' = Append(errlog, "Error: Unexpected input.")
            /\ exitCode' = 1
            /\ pc' = "done"
            /\ UNCHANGED <<ioVars, ch, out>>
       ELSE /\ \E v \in Lookup(map, ch) : out' = Append(out, ToByte(v))
            /\ \E r \in Getc(TrInBytes, Len(inp) < MaxInput) :
                  /\ ch' = ToChar(r.val)
                  /\ inp' = r.inp
                  /\ eofInd' = r.eof
                  /\ errInd' = r.err
            /\ UNCHANGED <<pc, exitCode, errlog>>
    /\ UNCHANGED <<charSigned, argc, arg1, arg2, map, len1, arg2MaxValidPos,
                   pos1, pos2, wcVars>>

(* Lines 68, 82-86: the loop condition fails; report a read error; return 0. *)
TrFinish ==
    /\ pc = "scan"
    /\ ch = EOF
    /\ errlog' = IF errInd THEN Append(errlog, "Read error") ELSE errlog
    /\ exitCode' = 0
    /\ pc' = "done"
    /\ UNCHANGED <<charSigned, ioVars, ch, trVars, wcVars>>

TrNext ==
    \/ TrUsage
    \/ TrSetup
    \/ TrBuildStep
    \/ TrFirstRead
    \/ TrScanStep
    \/ TrFinish

SpecTr == TrInit /\ [][TrNext]_vars

(***************************************************************************)
(* tu_wc                                                                   *)
(***************************************************************************)
INVALID_CHAR == ToChar(-1)
MIN_COLUMN_WIDTH == 2

(* isspace() in the "C" locale, for EOF or the value of a char. *)
IsSpace(c) == c \in {9, 10, 11, 12, 13, 32}

RECURSIVE SumSeq(_)
SumSeq(q) == IF q = <<>> THEN 0 ELSE Head(q) + SumSeq(Tail(q))

(* Bytes delivered by the streams main() is through with, and by those and
   the stream being scanned. *)
DataLogged == SumSeq([k \in 1..Len(srcLog) |-> Len(srcLog[k].data)])
DataRead == DataLogged + Len(inp)

(* LineStep with the check of the previous char left out. *)
LineStep_NoPair(ln, c, prev) ==
    IF c = 13 \/ c = 10 THEN ln + 1 ELSE ln

(* Lines 199-204: the line count after the char c, read after prev. *)
LineStep(ln, c, prev) ==
    IF c = 13 THEN ln + 1
    ELSE IF c = 10 /\ prev /= 13 THEN ln + 1
    ELSE ln

(* WordStep with the check of the previous char left out. *)
WordStep_EveryChar(wn, c, prevWasSpace) ==
    IF ~IsSpace(c) THEN wn + 1 ELSE wn

(* Lines 206-209: the word count after the char c. *)
WordStep(wn, c, prevWasSpace) ==
    IF ~IsSpace(c) /\ prevWasSpace THEN wn + 1 ELSE wn

(* AddCount with = in place of +=. *)
AddCount_Assign(total, n) == n

(* Lines 232-234: a count is added into the running total. *)
AddCount(total, n) == total + n

(* TotalWanted with fileNum > 0 in place of fileNum > 1. *)
TotalWanted_AnyFile(usingStdin, n) == usingStdin \/ n > 0

(* Line 164: the condition under which main() prints the total. *)
TotalWanted(usingStdin, n) == usingStdin \/ n > 1

(* WidthLoop with > in place of >=. *)
RECURSIVE WidthLoop_Gt(_, _)
WidthLoop_Gt(t, w) ==
    IF t > 10 THEN WidthLoop_Gt(t \div 10, w + 1) ELSE [temp |-> t, width |-> w]

(* Lines 125-128 and 155-158: while (t >= 10) { t /= 10; ++w; } *)
RECURSIVE WidthLoop(_, _)
WidthLoop(t, w) ==
    IF t >= 10 THEN WidthLoop(t \div 10, w + 1) ELSE [temp |-> t, width |-> w]

(* NumField with a field one narrower than asked for. *)
NumField_Narrow(w, n) == [k |-> "num", width |-> w - 1, val |-> n, text |-> ""]

(* What standard output receives: numbers written through setw(), strings,
   and line ends. *)
NumField(w, n) == [k |-> "num", width |-> w, val |-> n, text |-> ""]
Text(t) == [k |-> "str", width |-> 0, val |-> 0, text |-> t]
Endl == [k |-> "endl", width |-> 0, val |-> 0, text |-> ""]

(* PrintStats with the row put in front of what was written before. *)
PrintStats_Prepend(so, useLines, useWords, useBytes, ln, wn, bn, label, width) ==
    (IF useLines THEN <<NumField(width, ln)>> ELSE <<>>)
    \o (IF useWords THEN <<NumField(width, wn)>> ELSE <<>>)
    \o (IF useBytes THEN <<NumField(width, bn)>> ELSE <<>>)
    \o (IF label /= "" THEN <<Text(" "), Text(label), Endl>> ELSE <<>>)
    \o so

(* PrintStats with the line end written for an empty label too. *)
PrintStats_AlwaysEndl(so, useLines, useWords, useBytes, ln, wn, bn, label, width) ==
    so \o (IF useLines THEN <<NumField(width, ln)>> ELSE <<>>)
       \o (IF useWords THEN <<NumField(width, wn)>> ELSE <<>>)
       \o (IF useBytes THEN <<NumField(width, bn)>> ELSE <<>>)
       \o (IF label /= "" THEN <<Text(" "), Text(label), Endl>> ELSE <<Endl>>)

(* Lines 245-263: standard output after PrintStats() has written to `so`. *)
PrintStats(so, useLines, useWords, useBytes, ln, wn, bn, label, width) ==
    so \o (IF useLines THEN <<NumField(width, ln)>> ELSE <<>>)
       \o (IF useWords THEN <<NumField(width, wn)>> ELSE <<>>)
       \o (IF useBytes THEN <<NumField(width, bn)>> ELSE <<>>)
       \o (IF label /= "" THEN <<Text(" "), Text(label), Endl>> ELSE <<>>)

(* ScanCond without the look at feof() and ferror(). *)
ScanCond_ChOnly == ch /= EOF

(* Line 198: the condition of the scan loop. *)
ScanCond == ch /= EOF \/ (~eofInd /\ ~errInd)

WcInit ==
    /\ charSigned \in BOOLEAN
    /\ \E opts \in OptSets :
          /\ bUseLines = ("l" \in opts)
          /\ bUseWords = ("w" \in opts)
          /\ bUseBytes = ("c" \in opts)
    /\ fileNum \in 0..MaxFiles
    /\ pc = "start"
    /\ exitCode = 0
    /\ errlog = <<>>
    /\ inp = <<>>
    /\ eofInd = FALSE
    /\ errInd = FALSE
    /\ ch = 0
    /\ i = 0 /\ tempTotalByteNum = 0 /\ columnWidth = 0
    /\ totalLabel = "" /\ bUsingStdin = FALSE
    /\ totalLineNum = 0 /\ totalWordNum = 0 /\ totalByteNum = 0
    /\ filename = ""
    /\ lineNum = 0 /\ wordNum = 0 /\ byteNum = 0 /\ prevCh = 0
    /\ bPrevWasSpace = FALSE
    /\ stdout = <<>> /\ openFiles = {} /\ probed = <<>> /\ srcLog = <<>>
    /\ TrIdle

(* EnterProcessFile with prevCh and bPrevWasSpace kept from the scan
   before. *)
EnterProcessFile_KeepState(name) ==
    /\ filename' = name
    /\ lineNum' = 0
    /\ wordNum' = 0
    /\ byteNum' = 0
    /\ UNCHANGED <<prevCh, bPrevWasSpace>>
    /\ \E b \in (IF DataLogged < MaxData THEN WcBytes ELSE {}) \cup {EOF} :
       \E e \in (IF b = EOF THEN {"eof", "error"} ELSE {"data"}) :
          /\ ch' = ToChar(b)
          /\ inp' = IF b = EOF THEN <<>> ELSE <<b>>
          /\ eofInd' = (e = "eof")
          /\ errInd' = (e = "error")

(* Lines 181-190: ProcessFile() is entered for the stream `name` (a stream
   that has delivered nothing yet): locals are initialised and the first
   getc() is made. *)
EnterProcessFile(name) ==
    /\ filename' = name
    /\ lineNum' = 0
    /\ wordNum' = 0
    /\ byteNum' = 0
    /\ prevCh' = INVALID_CHAR
    /\ bPrevWasSpace' = TRUE
    /\ \E b \in (IF DataLogged < MaxData THEN WcBytes ELSE {}) \cup {EOF} :
       \E e \in (IF b = EOF THEN {"eof", "error"} ELSE {"data"}) :
          /\ ch' = ToChar(b)
          /\ inp' = IF b = EOF THEN <<>> ELSE <<b>>
          /\ eofInd' = (e = "eof")
          /\ errInd' = (e = "error")

(* Lines 91-112 and, without file arguments, 150 and 181-190. *)
WcBegin ==
    /\ pc = "start"
    /\ IF ~bUseLines /\ ~bUseWords /\ ~bUseBytes
       THEN bUseLines' = TRUE /\ bUseWords' = TRUE /\ bUseBytes' = TRUE
       ELSE UNCHANGED optVars
    /\ totalLineNum' = 0 /\ totalWordNum' = 0 /\ totalByteNum' = 0
    /\ columnWidth' = MIN_COLUMN_WIDTH
    /\ tempTotalByteNum' = 0
    /\ totalLabel' = ""
    /\ bUsingStdin' = FALSE
    /\ i' = 0
    /\ IF fileNum > 0
       THEN /\ pc' = "stat"
            /\ UNCHANGED <<ioVars, ch, filename, scanVars>>
       ELSE /\ pc' = "scan"
            /\ EnterProcessFile("")
    /\ UNCHANGED <<charSigned, exitCode, errlog, fileNum, stdout, openFiles,
                   probed, srcLog, trVars>>

(* WcStat with the return after a failed stat() left out. *)
WcStat_NoReturn ==
    /\ pc = "stat"
    /\ i < fileNum
    /\ \/ \E size \in StatSizes :
             /\ tempTotalByteNum' = tempTotalByteNum + size
             /\ probed' = Append(probed, size)
             /\ UNCHANGED errlog
       \/ /\ errlog' = Append(errlog, "Unable to get stat() data")
          /\ UNCHANGED <<tempTotalByteNum, probed>>
    /\ i' = i + 1
    /\ UNCHANGED <<charSigned, pc, exitCode, ioVars, ch, optVars, fileNum,
                   columnWidth, totalLabel, bUsingStdin, totVars, filename,
                   scanVars, stdout, openFiles, srcLog, trVars>>

(* Lines 114-123: one iteration of the stat() loop. *)
WcStat ==
    /\ pc = "stat"
    /\ i < fileNum
    /\ \/ \E size \in StatSizes :
             /\ tempTotalByteNum' = tempTotalByteNum + size
             /\ probed' = Append(probed, size)
             /\ i' = i + 1
             /\ UNCHANGED <<pc, exitCode, errlog>>
       \/ /\ errlog' = Append(errlog, "Unable to get stat() data")
          /\ exitCode' = 1
          /\ pc' = "done"
          /\ UNCHANGED <<tempTotalByteNum, probed, i>>
    /\ UNCHANGED <<charSigned, ioVars, ch, optVars, fileNum, columnWidth,
                   totalLabel, bUsingStdin, totVars, filename, scanVars,
                   stdout, openFiles, srcLog, trVars>>

(* Lines 125-130: every file was probed; the column width is computed. *)
WcWidth ==
    /\ pc = "stat"
    /\ i >= fileNum
    /\ LET r == WidthLoop(tempTotalByteNum, columnWidth)
       IN  /\ tempTotalByteNum' = r.temp
           /\ columnWidth' = r.width
    /\ i' = 0
    /\ pc' = "files"
    /\ UNCHANGED <<charSigned, exitCode, errlog, ioVars, ch, optVars, fileNum,
                   totalLabel, bUsingStdin, totVars, filename, scanVars,
                   stdout, openFiles, probed, srcLog, trVars>>

(* Lines 130-145: fopen() of the next file; ProcessFile() is entered when
   it succeeds. *)
WcOpen ==
    /\ pc = "files"
    /\ i < fileNum
    /\ \/ /\ errlog' = Append(errlog, "No such file or directory")
          /\ srcLog' = Append(srcLog, [name |-> Names[i + 1], status |-> "openfail",
                                        data |-> <<>>, lines |-> 0, words |-> 0,
                                        bytes |-> 0])
          /\ i' = i + 1
          /\ UNCHANGED <<pc, ioVars, ch, filename, scanVars, openFiles>>
       \/ /\ openFiles' = openFiles \cup {Names[i + 1]}
          /\ EnterProcessFile(Names[i + 1])
          /\ pc' = "scan"
          /\ UNCHANGED <<errlog, srcLog, i>>
    /\ UNCHANGED <<charSigned, exitCode, optVars, fileNum, tempTotalByteNum,
                   columnWidth, totalLabel, bUsingStdin, totVars, stdout,
                   probed, trVars>>

(* Lines 198-222: one iteration of the scan loop. *)
WcScanStep ==
    /\ pc = "scan"
    /\ ScanCond
    /\ byteNum < Len(inp) + LoopSlack
    /\ lineNum' = LineStep(lineNum, ch, prevCh)
    /\ wordNum' = WordStep(wordNum, ch, bPrevWasSpace)
    /\ byteNum' = byteNum + 1
    /\ prevCh' = ch
    /\ bPrevWasSpace' = IsSpace(ch)
    /\ \E r \in Getc(WcBytes, DataRead < MaxData) :
          /\ ch' = ToChar(r.val)
          /\ inp' = r.inp
          /\ eofInd' = r.eof
          /\ errInd' = r.err
    /\ UNCHANGED <<charSigned, pc, exitCode, errlog, optVars, mainVars, totVars,
                   filename, stdout, openFiles, probed, srcLog, trVars>>

(* ProcessFileTail with the counts added before ferror() is looked at. *)
ProcessFileTail_MergeFirst ==
    /\ totalLineNum' = totalLineNum + lineNum
    /\ totalWordNum' = totalWordNum + wordNum
    /\ totalByteNum' = totalByteNum + byteNum
    /\ srcLog' = Append(srcLog, [name |-> filename,
                                  status |-> IF errInd THEN "readerr" ELSE "ok",
                                  data |-> inp, lines |-> lineNum,
                                  words |-> wordNum, bytes |-> byteNum])
    /\ IF errInd
       THEN /\ errlog' = Append(errlog, "Read error")
            /\ UNCHANGED stdout
       ELSE /\ stdout' = IF filename /= ""
                         THEN PrintStats(stdout, bUseLines, bUseWords, bUseBytes,
                                         lineNum, wordNum, byteNum, filename,
                                         columnWidth)
                         ELSE stdout
            /\ UNCHANGED errlog

(* Lines 224-241: ProcessFile() after the scan loop. *)
ProcessFileTail ==
    IF errInd
    THEN /\ errlog' = Append(errlog, "Read error")
         /\ srcLog' = Append(srcLog, [name |-> filename, status |-> "readerr",
                                       data |-> inp, lines |-> lineNum,
                                       words |-> wordNum, bytes |-> byteNum])
         /\ UNCHANGED <<totVars, stdout>>
    ELSE /\ totalLineNum' = AddCount(totalLineNum, lineNum)
         /\ totalWordNum' = AddCount(totalWordNum, wordNum)
         /\ totalByteNum' = AddCount(totalByteNum, byteNum)
         /\ stdout' = IF filename /= ""
                      THEN PrintStats(stdout, bUseLines, bUseWords, bUseBytes,
                                      lineNum, wordNum, byteNum, filename,
                                      columnWidth)
                      ELSE stdout
         /\ srcLog' = Append(srcLog, [name |-> filename, status |-> "ok",
                                       data |-> inp, lines |-> lineNum,
                                       words |-> wordNum, bytes |-> byteNum])
         /\ UNCHANGED errlog

(* Lines 198, 224-241, 130: the scan of a file argument is over;
   ProcessFile() returns into the file loop. *)
WcFileEnd ==
    /\ pc = "scan"
    /\ ~ScanCond
    /\ fileNum > 0
    /\ ProcessFileTail
    /\ i' = i + 1
    /\ pc' = "files"
    /\ UNCHANGED <<charSigned, exitCode, ioVars, ch, optVars, fileNum,
                   tempTotalByteNum, columnWidth, totalLabel, bUsingStdin,
                   filename, scanVars, openFiles, probed, trVars>>

(* Lines 198, 224-241, 153-160: the scan of standard input is over;
   the column width is computed from the bytes counted. *)
WcStdinEnd ==
    /\ pc = "scan"
    /\ ~ScanCond
    /\ fileNum = 0
    /\ ProcessFileTail
    /\ LET r == WidthLoop(totalByteNum', columnWidth)
       IN  /\ tempTotalByteNum' = r.temp
           /\ columnWidth' = r.width
    /\ bUsingStdin' = TRUE
    /\ pc' = "total"
    /\ UNCHANGED <<charSigned, exitCode, ioVars, ch, optVars, fileNum, i,
                   totalLabel, filename, scanVars, openFiles, probed, trVars>>

(* Lines 130, 147: the file loop is over. *)
WcFilesDone ==
    /\ pc = "files"
    /\ i >= fileNum
    /\ totalLabel' = "total"
    /\ pc' = "total"
    /\ UNCHANGED <<charSigned, exitCode, errlog, ioVars, ch, optVars, fileNum, i,
                   tempTotalByteNum, columnWidth, bUsingStdin, totVars,
                   filename, scanVars, stdout, openFiles, probed, srcLog,
                   trVars>>

(* Lines 163-173: the total row; return 0. *)
WcTotal ==
    /\ pc = "total"
    /\ stdout' = IF TotalWanted(bUsingStdin, fileNum)
                 THEN PrintStats(stdout, bUseLines, bUseWords, bUseBytes,
                                 totalLineNum, totalWordNum, totalByteNum,
                                 totalLabel, columnWidth)
                      \o (IF bUsingStdin THEN <<Endl>> ELSE <<>>)
                 ELSE stdout
    /\ exitCode' = 0
    /\ pc' = "done"
    /\ UNCHANGED <<charSigned, errlog, ioVars, ch, optVars, mainVars, totVars,
                   filename, scanVars, openFiles, probed, srcLog, trVars>>

WcNext ==
    \/ WcBegin
    \/ WcStat
    \/ WcWidth
    \/ WcOpen
    \/ WcScanStep
    \/ WcFileEnd
    \/ WcStdinEnd
    \/ WcFilesDone
    \/ WcTotal

SpecWc == WcInit /\ [][WcNext]_vars

(***************************************************************************)
(* Properties of tu_tr, checked under SpecTr.                              *)
(***************************************************************************)
TrRan == argc = ARGS_USED_NUM + 1
TableBuilt == TrRan /\ pc \in {"scan", "done"}

(* C1: when tu_tr has ended, the stream had signalled its end (clean
   end-of-stream or an error), and exactly one byte was written for every
   byte the stream delivered. *)
C1_OutputLengthEqualsInput ==
    (pc = "done" /\ TrRan) =>
        /\ eofInd \/ errInd
        /\ Len(out) = Len(inp)

(* C2: with non-empty ARG1 and ARG2 and strlen(ARG2) <= strlen(ARG1), every
   ARG1 byte at a position >= strlen(ARG2) - 1 is transformed to the last
   byte of ARG2, and every byte that indexes the table and does not occur in
   ARG1 is transformed to itself. *)
C2_LastCharacterExtends ==
    (TableBuilt /\ arg1 /= <<>> /\ arg2 /= <<>> /\ Len(arg2) <= Len(arg1)) =>
        /\ \A p \in Len(arg2)..Len(arg1) :
              Transform(map, arg1[p]) = {arg2[Len(arg2)]}
        /\ \A b \in 0..(ASCII_MAX - 1) :
              (ToChar(b) \in DOMAIN map /\ \A p \in 1..Len(arg1) : arg1[p] /= b)
                  => Transform(map, b) = {b}

(* C3: with an empty ARG2, every byte that indexes the table is transformed
   to itself, whatever ARG1 is. *)
C3_EmptyTargetIsIdentity ==
    (TableBuilt /\ arg2 = <<>>) =>
        \A b \in 0..(ASCII_MAX - 1) :
            ToChar(b) \in DOMAIN map => Transform(map, b) = {b}

(* C9: when tu_tr has ended after the input stream reported an error, the
   error was reported, every byte written is still in the output, and the
   exit status is not zero. *)
C9_ReadErrorExitsNonZero ==
    (pc = "done" /\ TrRan /\ errInd) =>
        /\ \E k \in 1..Len(errlog) : errlog[k] = "Read error"
        /\ Len(out) = Len(inp)
        /\ exitCode /= 0

(***************************************************************************)
(* Properties of tu_wc, checked under SpecWc.                              *)
(***************************************************************************)
WhitespaceBytes == {32, 9, 10, 13, 11, 12}

(* The number of maximal runs of non-whitespace bytes of d, counted by the
   last byte of each run. *)
WordRuns(d) ==
    Cardinality({k \in 1..Len(d) :
                    /\ d[k] \notin WhitespaceBytes
                    /\ (k = Len(d) \/ d[k + 1] \in WhitespaceBytes)})

(* The '\r' bytes of d plus the '\n' bytes of d not right after a '\r'. *)
LineEnds(d) ==
    Cardinality({k \in 1..Len(d) : d[k] = 13})
    + Cardinality({k \in 1..Len(d) : d[k] = 10 /\ (k = 1 \/ d[k - 1] /= 13)})

Scanned == {k \in 1..Len(srcLog) : srcLog[k].status /= "openfail"}
Succeeded == {k \in 1..Len(srcLog) : srcLog[k].status = "ok"}

RECURSIVE SumOver(_, _)
SumOver(S, f) ==
    IF S = {} THEN 0
    ELSE LET k == CHOOSE x \in S : TRUE IN f[k] + SumOver(S \ {k}, f)

StatFailed == \E k \in 1..Len(errlog) : errlog[k] = "Unable to get stat() data"
TotalRowEmitted == \E k \in 1..Len(stdout) : stdout[k] = Text("total")
RowEmittedFor(name) == \E k \in 1..Len(stdout) : stdout[k] = Text(name)

(* C4: the word count of every source whose scan is over is the number of
   maximal runs of non-whitespace bytes of what the source delivered (so 0
   for whitespace only), and a source that delivered nothing has line, word
   and byte count 0. *)
C4_WordCountIsRuns ==
    \A k \in Scanned :
        /\ srcLog[k].words = WordRuns(srcLog[k].data)
        /\ srcLog[k].data = <<>> =>
              (srcLog[k].lines = 0 /\ srcLog[k].words = 0 /\ srcLog[k].bytes = 0)

C4_Witness ==
    \E k \in Scanned :
        /\ srcLog[k].data = <<97, 32, 97>>
        /\ srcLog[k].words = 2

(* C5: the line count of every source whose scan is over is the number of
   '\r' bytes plus the number of '\n' bytes not right after a '\r'. *)
C5_LineCountCollapsesCRLF ==
    \A k \in Scanned : srcLog[k].lines = LineEnds(srcLog[k].data)

C5_Witness ==
    \E k \in Scanned :
        /\ srcLog[k].data = <<13, 10, 10>>
        /\ srcLog[k].lines = 2

(* C6: each counter of the running total is the sum of that counter over the
   sources processed successfully, and no row is written for a source that
   failed to open. *)
C6_TotalsAreSums ==
    /\ totalLineNum = SumOver(Succeeded, [k \in Succeeded |-> srcLog[k].lines])
    /\ totalWordNum = SumOver(Succeeded, [k \in Succeeded |-> srcLog[k].words])
    /\ totalByteNum = SumOver(Succeeded, [k \in Succeeded |-> srcLog[k].bytes])
    /\ \A k \in 1..Len(srcLog) :
          srcLog[k].status = "openfail" => ~RowEmittedFor(srcLog[k].name)

C6_Witness ==
    /\ Len(srcLog) = 2
    /\ srcLog[1].status = "ok" /\ srcLog[1].data = <<97, 10>>
    /\ srcLog[2].status = "ok" /\ srcLog[2].data = <<97>>
    /\ totalLineNum = 1 /\ totalWordNum = 2 /\ totalByteNum = 3

(* C7 as stated: after a run with file arguments the "total" row is there
   exactly when more than one of them was processed successfully. *)
C7_TotalRowIffSeveralSucceeded ==
    (pc = "done" /\ fileNum > 0) =>
        (TotalRowEmitted <=> Cardinality(Succeeded) > 1)

(* C7 as amended: the "total" row is written only at the end of the run,
   and after a run with file arguments it is there exactly when more than
   one file argument was given and no stat() failed. *)
C7_TotalRowIffSeveralGiven ==
    /\ TotalRowEmitted => (pc = "done" /\ fileNum > 1)
    /\ (pc = "done" /\ fileNum > 0) =>
          (TotalRowEmitted <=> (fileNum > 1 /\ ~StatFailed))

C7_Witness ==
    /\ pc = "done"
    /\ fileNum = 2
    /\ Cardinality(Succeeded) = 1
    /\ TotalRowEmitted

(* C8: while a file is scanned the running totals and standard output stay
   as they are, and the step that ends the scan of a file whose stream
   reported an error leaves them as they are too, reports the error and
   moves on to the next file argument. *)
C8_ReadErrorLeavesTotals ==
    [][(pc = "scan" /\ fileNum > 0) =>
          /\ pc' = "scan" => (totVars' = totVars /\ stdout' = stdout)
          /\ (pc' /= "scan" /\ errInd) =>
                /\ totVars' = totVars
                /\ stdout' = stdout
                /\ errlog' = Append(errlog, "Read error")
                /\ pc' = "files"
                /\ i' = i + 1]_vars

C8_Witness ==
    /\ Len(srcLog) = 2
    /\ srcLog[1].status = "readerr" /\ srcLog[1].bytes > 0
    /\ srcLog[2].status = "ok" /\ srcLog[2].bytes > 0
    /\ totalByteNum = srcLog[2].bytes

(* C10: once a stat() has failed the run is over with a non-zero exit
   status, no file was opened or read and nothing was written to standard
   output; a run that ends without a failed stat() has exit status 0. *)
C10_StatFailureAborts ==
    /\ StatFailed =>
          /\ pc = "done"
          /\ exitCode /= 0
          /\ stdout = <<>>
          /\ openFiles = {}
          /\ srcLog = <<>>
          /\ inp = <<>>
    /\ (pc = "done" /\ ~StatFailed) => exitCode = 0

C10_Witness ==
    /\ StatFailed
    /\ pc = "done"
    /\ fileNum = 2
    /\ Len(probed) = 1

(* C11: at most one file is open at any time, and none is open once the run
   is over. *)
C11_SourcesAreClosed ==
    /\ Cardinality(openFiles) <= 1
    /\ pc = "done" => openFiles = {}

(* The counters the options select, in the order lines, words, bytes. *)
Selected(ln, wn, bn) ==
    (IF bUseLines THEN <<ln>> ELSE <<>>)
    \o (IF bUseWords THEN <<wn>> ELSE <<>>)
    \o (IF bUseBytes THEN <<bn>> ELSE <<>>)

(* Standard output is the numbers `nums`, one field each, then `ends` line
   ends, and nothing else. *)
IsUnlabeledRow(nums, ends) ==
    /\ Len(stdout) = Len(nums) + ends
    /\ \A k \in 1..Len(nums) : stdout[k].k = "num" /\ stdout[k].val = nums[k]
    /\ \A k \in (Len(nums) + 1)..Len(stdout) : stdout[k] = Endl

(* The counts the row of standard input holds: those of the scan, or zeros
   when the stream reported an error. *)
StdinCounts ==
    IF srcLog[1].status = "ok"
    THEN Selected(srcLog[1].lines, srcLog[1].words, srcLog[1].bytes)
    ELSE Selected(0, 0, 0)

(* C12 as stated: after a run without file arguments standard input was
   scanned once and standard output is one unlabeled row with its counts
   followed by a blank line (the line end of the row and one more). *)
C12_StdinRowThenBlankLine ==
    (pc = "done" /\ fileNum = 0) =>
        /\ Len(srcLog) = 1
        /\ IsUnlabeledRow(StdinCounts, 2)

(* C12 as amended: nothing is written before the end of a run without file
   arguments; after it standard input was scanned once and standard output
   is one unlabeled row with its counts (zeros after a read error) ended by
   one line end, with no blank line and no second row. *)
C12_StdinRowOnly ==
    fileNum = 0 =>
        /\ pc /= "done" => stdout = <<>>
        /\ pc = "done" =>
              /\ Len(srcLog) = 1
              /\ srcLog[1].name = ""
              /\ IsUnlabeledRow(StdinCounts, 1)

C12_Witness ==
    /\ pc = "done"
    /\ fileNum = 0
    /\ srcLog[1].status = "ok"
    /\ srcLog[1].data = <<97, 10, 97>>
    /\ bUseLines /\ bUseWords /\ bUseBytes
    /\ Len(stdout) = 4

(* The number of decimal digits of n. *)
DigitCount(n) == CHOOSE d \in 1..9 : (d = 1 \/ n >= 10 ^ (d - 1)) /\ n < 10 ^ d

Max(a, b) == IF a >= b THEN a ELSE b

(* C13: with file arguments no source is touched while the files are
   probed, and from then on columnWidth is max(2, digitCount(S) + 1) for the
   sum S of the probed lengths; without file arguments it is that formula
   of the byte count once the scan is over; every number written so far was
   written with the width columnWidth. *)
C13_ColumnWidth ==
    /\ (fileNum > 0 /\ pc = "stat") =>
          (srcLog = <<>> /\ openFiles = {} /\ inp = <<>> /\ stdout = <<>>)
    /\ (fileNum > 0 /\ pc \in {"files", "scan", "total", "done"} /\ ~StatFailed) =>
          /\ Len(probed) = fileNum
          /\ columnWidth = Max(2, DigitCount(SumSeq(probed)) + 1)
    /\ (fileNum = 0 /\ pc \in {"total", "done"}) =>
          columnWidth = Max(2, DigitCount(totalByteNum) + 1)
    /\ \A k \in 1..Len(stdout) :
          stdout[k].k = "num" => stdout[k].width = columnWidth

C13_Witness ==
    /\ pc = "done"
    /\ SumSeq(probed) = 1000
    /\ columnWidth = 5
    /\ \E k \in 1..Len(stdout) : stdout[k].k = "num" /\ stdout[k].width = 5

IsLabel(t) == t.k = "str" /\ t.text /= " "
IsLineEnd(t) == t.k = "endl"
IsOkEntry(r) == r.status = "ok"

(* C14: the sources main() is through with are the file arguments in the
   order given, the one being scanned is the next one, and the labels of
   the rows written are the names of the successfully processed sources, one
   row each and in that order, followed by "total" when the total row was
   written. *)
C14_RowsInArgumentOrder ==
    fileNum > 0 =>
        LET labels == SelectSeq(stdout, IsLabel)
            ok == SelectSeq(srcLog, IsOkEntry)
        IN  /\ \A k \in 1..Len(srcLog) : srcLog[k].name = Names[k]
            /\ pc = "scan" => filename = Names[Len(srcLog) + 1]
            /\ Len(labels) = Len(ok) + (IF TotalRowEmitted THEN 1 ELSE 0)
            /\ \A k \in 1..Len(ok) : labels[k].text = ok[k].name
            /\ TotalRowEmitted => labels[Len(labels)].text = "total"
            /\ Len(SelectSeq(stdout, IsLineEnd)) = Len(labels)

C14_Witness ==
    /\ pc = "done"
    /\ Len(srcLog) = 2
    /\ srcLog[1].status = "ok" /\ srcLog[2].status = "ok"
    /\ TotalRowEmitted

(* C15: while the stream being scanned has signalled neither its end nor an
   error (the char at hand is a data byte, 0xFF included) the scan goes on
   and counts the byte; the scan ends only after the stream has signalled
   its end or an error, and when it ends without an error the byte count is
   the number of bytes delivered. *)
C15_ByteCountAndTermination ==
    [][pc = "scan" =>
          /\ (~eofInd /\ ~errInd) => (pc' = "scan" /\ byteNum' = byteNum + 1)
          /\ pc' /= "scan" =>
                /\ eofInd \/ errInd
                /\ ~errInd => byteNum = Len(inp)]_vars

C15_Witness ==
    \E k \in Scanned :
        /\ srcLog[k].status = "ok"
        /\ srcLog[k].data = <<255, 97>>
        /\ srcLog[k].bytes = 2

Min(a, b) == IF a <= b THEN a ELSE b

(* C16: with a non-empty ARG2, a byte that occurs at several positions of
   ARG1 is transformed to the ARG2 byte its last occurrence selects,
   target[min(i_last, length(target) - 1)]. *)
C16_LastOccurrenceWins ==
    (TableBuilt /\ arg2 /= <<>>) =>
        \A p \in 1..Len(arg1) :
            (/\ \E q \in 1..(p - 1) : arg1[q] = arg1[p]
             /\ \A q \in (p + 1)..Len(arg1) : arg1[q] /= arg1[p])
                => Transform(map, arg1[p]) = {arg2[Min(p, Len(arg2))]}

(* The counters ProcessFile() ends with when it scans the bytes d from a
   fresh start. *)
RECURSIVE ScanFrom(_, _)
ScanFrom(st, d) ==
    IF d = <<>> THEN st
    ELSE LET c == ToChar(Head(d))
         IN  ScanFrom([lines |-> LineStep(st.lines, c, st.prev),
                       words |-> WordStep(st.words, c, st.space),
                       bytes |-> st.bytes + 1,
                       prev |-> c,
                       space |-> IsSpace(c)], Tail(d))

ScanAlone(d) ==
    ScanFrom([lines |-> 0, words |-> 0, bytes |-> 0, prev |-> INVALID_CHAR,
              space |-> TRUE], d)

(* C17: the counts of every source whose scan is over are those the source
   yields when scanned alone; so a source that begins with '\n' after one
   that ends in '\r' has that line counted, and a source that begins with a
   non-whitespace byte after one that ends in one has that word counted. *)
C17_NoLeakBetweenSources ==
    \A k \in Scanned :
        LET r == ScanAlone(srcLog[k].data)
            d == srcLog[k].data
            e == IF k > 1 THEN srcLog[k - 1].data ELSE <<>>
        IN  /\ srcLog[k].lines = r.lines
            /\ srcLog[k].words = r.words
            /\ srcLog[k].bytes = r.bytes
            /\ (d /= <<>> /\ e /= <<>> /\ d[1] = 10 /\ e[Len(e)] = 13) =>
                  srcLog[k].lines >= 1
            /\ (d /= <<>> /\ e /= <<>> /\ d[1] \notin WhitespaceBytes
                    /\ e[Len(e)] \notin WhitespaceBytes) =>
                  srcLog[k].words >= 1

C17_Witness ==
    /\ Len(srcLog) = 2
    /\ srcLog[1].status = "ok" /\ srcLog[1].data = <<97, 13>>
    /\ srcLog[2].status = "ok" /\ srcLog[2].data = <<10>>
    /\ srcLog[2].lines = 1

(* C18: line and word count never exceed the byte count, and when the bytes
   every scanned file delivered are as many as stat() reported for it (or
   standard input is read), every number written has at most width - 1
   digits, width being the field width it was written with. *)
C18_FieldsNeverRunTogether ==
    /\ \A k \in 1..Len(srcLog) :
          srcLog[k].lines <= srcLog[k].bytes /\ srcLog[k].words <= srcLog[k].bytes
    /\ pc = "scan" => (lineNum <= byteNum /\ wordNum <= byteNum)
    /\ (fileNum = 0 \/ \A k \in Scanned : Len(srcLog[k].data) = probed[k]) =>
          \A k \in 1..Len(stdout) :
              stdout[k].k = "num" => DigitCount(stdout[k].val) <= stdout[k].width - 1

C18_Witness ==
    /\ pc = "done"
    /\ probed = <<1, 1>>
    /\ Len(srcLog) = 2
    /\ srcLog[1].status = "ok" /\ srcLog[1].data = <<10>>
    /\ srcLog[2].status = "ok" /\ srcLog[2].data = <<97>>
    /\ bUseBytes
    /\ \E k \in 1..Len(stdout) : stdout[k] = NumField(2, 2)

====
